---- MODULE Spec2Model ----
(***************************************************************************)
(* Scenario sharing (snapshot copy): the tables react_scenarios and        *)
(* react_scenario_shares and the function react_share_scenario of the      *)
(* sharing migration, run by concurrent database sessions.                 *)
(*                                                                         *)
(* Each call of react_share_scenario is one transaction at the default     *)
(* isolation level (read committed): every SQL statement of the function   *)
(* is one step that reads the rows committed so far, the rows the call     *)
(* inserts stay private to it until it returns, and an exception discards  *)
(* them.                                                                   *)
(***************************************************************************)
EXTENDS Integers, Sequences, FiniteSets, TLC

(***************************************************************************)
(* Bounds of the model.                                                    *)
(***************************************************************************)
\* concurrent database sessions calling react_share_scenario
MaxCalls == 2
\* scenario ids ever handed out (the initial scenarios included)
MaxScenarioId == 3
\* ticks of the server's clock
MaxTime == 1
\* preview requests of the macro preview hook under way at a time
MaxFetches == 2

(***************************************************************************)
(* Values.                                                                 *)
(***************************************************************************)
\* auth.uid() of an unauthenticated session, and a NULL uuid column
NullId == 0
\* a NULL text column
NullText == << >>

UserIds == {1, 2, 3}
Calls == 1..MaxCalls
\* who calls: a signed-in user, or nobody
Callers == {NullId, 1, 2}
ScenarioIds == 1..MaxScenarioId

\* text is a sequence of one-character strings
LowerChar(ch) ==
    CASE ch = "A" -> "a"
      [] ch = "B" -> "b"
      [] ch = "C" -> "c"
      [] ch = "L" -> "l"
      [] ch = "O" -> "o"
      [] ch = "Y" -> "y"
      [] ch = "Z" -> "z"
      [] OTHER -> ch

\* lower(text)
Lower(s) == [i \in DOMAIN s |-> LowerChar(s[i])]

RECURSIVE LTrim(_)
LTrim(s) == IF s # << >> /\ Head(s) = " " THEN LTrim(Tail(s)) ELSE s

RECURSIVE RTrim(_)
RTrim(s) ==
    IF s # << >> /\ s[Len(s)] = " " THEN RTrim(SubSeq(s, 1, Len(s) - 1)) ELSE s

\* trim(text): spaces removed from both ends
Trim(s) == RTrim(LTrim(s))

\* the column set name, description, overrides, base_currency of a scenario
Contents ==
    { [name |-> "Base Case", description |-> "d1",
       overrides |-> "target_pe=18.5", base_currency |-> "USD"],
      [name |-> "Bear Case", description |-> "d2",
       overrides |-> "target_pe=12", base_currency |-> "EUR"] }

\* a row of react_scenarios
ScenarioRow(id, owner, c, isCopy, fromId, byUser, byEmail) ==
    [id |-> id, user_id |-> owner,
     name |-> c.name, description |-> c.description,
     overrides |-> c.overrides, base_currency |-> c.base_currency,
     is_shared_copy |-> isCopy, shared_from_scenario_id |-> fromId,
     shared_by_user_id |-> byUser, shared_by_email |-> byEmail]

\* a scenario its owner created directly: the sharing columns at their defaults
OwnScenario(id, owner, c) ==
    ScenarioRow(id, owner, c, FALSE, NullId, NullId, NullText)

ContentOf(r) ==
    [name |-> r.name, description |-> r.description,
     overrides |-> r.overrides, base_currency |-> r.base_currency]

\* a row of react_scenario_shares
ShareRow(id, source, sender, recipient, email, at) ==
    [id |-> id, source_scenario_id |-> source, shared_by_user_id |-> sender,
     recipient_user_id |-> recipient, recipient_email |-> email,
     created_at |-> at]

\* registered users: auth.users(id, email)
UserTables ==
    { [u \in UserIds |->
         CASE u = 1 -> <<"a", "l">>
           [] u = 2 -> <<"B", "o">>
           [] OTHER -> <<"c", "y">>] }

\* auth.users with two emails that differ in letter case only
AmbiguousUserTables ==
    { [u \in UserIds |->
         CASE u = 1 -> <<"a", "l">>
           [] u = 2 -> <<"C", "y">>
           [] OTHER -> <<"c", "y">>] }

\* the recipient_email_input arguments tried
EmailInputs ==
    { <<" ", "A", "L", " ">>, <<"b", "O">>, <<"c", "y">>, <<"z", "z">> }

\* what a call reports to its caller
Ok == "ok"
AuthenticationRequired == "Authentication required"
NotFoundOrNotOwned == "Scenario not found or not owned by user"
RecipientNotFound == "Recipient not found"
SelfShareForbidden == "Cannot share scenario to yourself"
DuplicateShare == "Scenario already shared with this recipient"
UniqueViolation == "unique_violation"
ForeignKeyViolation == "foreign_key_violation"
Aborted == "aborted"

NoResult == [kind |-> "none", shared_scenario_id |-> NullId,
             shared_scenario_name |-> "", recipient_user_id |-> NullId,
             recipient_email |-> NullText]

Failure(kind) == [NoResult EXCEPT !.kind = kind]

\* the DECLAREd variables before they are assigned; source_record is the set
\* of rows selected into it (none: source_record.id IS NULL)
NoLocals == [sender_id |-> NullId, sender_email |-> NullText,
             recipient_id |-> NullId, recipient_email |-> NullText,
             source_record |-> {}]

VARIABLES
    users,           \* auth.users: id -> email
    scenarios,       \* committed rows of react_scenarios
    shares,          \* committed rows of react_scenario_shares
    nextScenarioId,  \* the next fresh scenario id
    pc,              \* per call: the statement it is about to run
    locals,          \* per call: the DECLAREd variables
    newScenario,     \* per call: the copy it inserted, not yet committed
    newShare,        \* per call: the share row it inserted, not yet committed
    result,          \* per call: what it returned or raised
    clock,           \* the server's time, and per call NOW(): its transaction's start
    direct,          \* the answer to the last statement a client ran on
                     \* react_scenario_shares itself, under row level security
    search,          \* the last call of react_search_users_by_email and its answer
    hook,            \* useMacroPreview of one region, and the input store it reads
    auth             \* useAuthStore, its environment and its calls under way

vars == <<users, scenarios, shares, nextScenarioId, pc, locals,
          newScenario, newShare, result, clock, direct, search, hook, auth>>

\* what the share function and the scenarios' owners leave alone
client == <<direct, search, hook, auth>>

\* no statement run yet
NoDirect == [op |-> "none", uid |-> NullId, outcome |-> "none", rows |-> {}]
NoSearch == [uid |-> NullId, query |-> << >>, kind |-> "none", rows |-> << >>]

tables == <<scenarios, shares>>

(***************************************************************************)
(* useMacroPreview(region): what one render of the hook computes.  Inputs  *)
(* are in units of 0.0001.                                                 *)
(***************************************************************************)
\* the regions the hook is used for
Regions == {"us", "eurozone"}

\* two of BUILDING_BLOCK_KEYS
BuildingBlockKeys == {"population_growth", "current_tbill"}

\* the direct forecast fields the hook reports conflicts for
DirectFields == {"rgdp_growth", "inflation_forecast", "tbill_forecast"}

\* DEFAULT_INPUTS.macro
Defaults ==
    [region \in Regions |->
       [key \in BuildingBlockKeys |->
          IF region = "us"
          THEN (IF key = "population_growth" THEN 4000 ELSE 36700)
          ELSE (IF key = "population_growth" THEN 1000 ELSE 27000)]]

\* the values the user gives a building block: the default, a value within
\* 0.001 of it, and a value further away
BlockValues(region, key) == {Defaults[region][key] + d : d \in {-20, 0, 5}}

\* 0.001
Tolerance == 10

Abs(x) == IF x < 0 THEN -x ELSE x

\* BUILDING_BLOCK_KEYS.some((key) => Math.abs(current - defaultVal) > 0.001)
HasChanges(macroInputs, defaults) ==
    \E key \in BuildingBlockKeys :
       Abs(macroInputs[key] - defaults[key]) > Tolerance

\* computed === null: no result object
NoPreview == [object |-> "null"]

\* error === null
NoError == "null"

NoConflicts == [f \in DirectFields |-> FALSE]

\* the body of the conflicts memo; dirty is the set of fields of the region
\* isMacroDirty answers true for
ComputeConflicts(computed, hasChanges, dirty) ==
    IF computed = NoPreview \/ ~hasChanges
    THEN NoConflicts
    ELSE [f \in DirectFields |-> f \in dirty]

\* a render: macroInputs is selected from the store, hasChanges is computed
\* from it, and the conflicts memo runs again when one of computed,
\* hasChanges, region and isMacroDirty is not the one of the render before
Render(h) ==
    LET macroInputs == h.macro[h.region]
        hasChanges == HasChanges(macroInputs, Defaults[h.region])
        deps == <<h.computed, hasChanges, h.region, h.isMacroDirty>>
    IN [h EXCEPT !.macroInputs = macroInputs,
                 !.hasChanges = hasChanges,
                 !.conflicts =
                    IF deps # h.conflictDeps
                    THEN ComputeConflicts(h.computed, hasChanges, h.dirty[h.region])
                    ELSE @,
                 !.conflictDeps = deps]

\* what fetchPreview of a render sends: the region and the building blocks
\* of that render, divided by 100 (units of 0.000001)
BuildingBlocks(h) ==
    [region |-> h.region,
     buildingBlocks |-> [key \in BuildingBlockKeys |-> h.macroInputs[key]]]

\* faulty variant: the effect returns no cleanup, and the timeout of the
\* render before stays set
EffectWithoutCleanup(h) ==
    IF ~h.hasChanges
    THEN Render([h EXCEPT !.computed = NoPreview])
    ELSE [h EXCEPT !.timeouts = @ \cup {BuildingBlocks(h)}]

\* the effect, run after a render with a new region or new inputs: the
\* cleanup of the effect before clears its timeout; without changes computed
\* is set to null, else a timeout is set for fetchPreview of this render
Effect(h) ==
    IF ~h.hasChanges
    THEN Render([h EXCEPT !.timeouts = {}, !.computed = NoPreview])
    ELSE [h EXCEPT !.timeouts = {BuildingBlocks(h)}]

\* the hook after its first render and effect, the store at its defaults
Mounted ==
    [region |-> "us", macro |-> Defaults, macroInputs |-> Defaults["us"],
     dirty |-> [region \in Regions |-> {}], isMacroDirty |-> "isMacroDirty",
     computed |-> NoPreview, isLoading |-> FALSE, error |-> NoError,
     hasChanges |-> FALSE, conflicts |-> NoConflicts,
     conflictDeps |-> <<NoPreview, FALSE, "us", "isMacroDirty">>,
     timeouts |-> {}, fetching |-> << >>]

(***************************************************************************)
(* useAuthStore: the store as created, and checkIsSuperUser.               *)
(***************************************************************************)
\* the calls that await the backend at once
MaxAuthCalls == 2

\* null
Null == [object |-> "null"]

\* user.email of a user without one
Undefined == <<"undefined">>

\* the users the backend knows
AuthUsers == {[email |-> email] : email \in {<<"a", "L">>, <<"b", "o">>, Undefined}}

\* a session of the backend
SessionOf(user) == [user |-> user]

\* session?.user ?? null
UserOf(session) == IF session = Null THEN Null ELSE session.user

\* the builds: with the backend's client or without (getSupabaseClient()
\* answers null), and process.env.NEXT_PUBLIC_SUPER_USER_EMAIL || ''
Environments ==
    [supabase : BOOLEAN, SUPER_USER_EMAIL : {<< >>, <<"A", "l">>}]

Deployed == [supabase |-> TRUE, SUPER_USER_EMAIL |-> <<"A", "l">>]

AuthCalls == {"initialize", "signIn", "signUp", "signOut"}

\* a promise resolved with no value
Void == [void |-> TRUE]

\* the store that create() answers, no call made yet
Created(environment) ==
    [user |-> Null, session |-> Null, isLoading |-> TRUE,
     isConfigured |-> FALSE, error |-> NoError, isSuperUser |-> FALSE,
     supabase |-> environment.supabase,
     SUPER_USER_EMAIL |-> environment.SUPER_USER_EMAIL,
     awaiting |-> [call \in AuthCalls |-> 0], listening |-> FALSE,
     returned |-> [call |-> "none", value |-> Void, turn |-> 0]]

\* faulty variant: the emails are compared as they are written
CheckIsSuperUserExact(user) ==
    IF user = Null \/ auth.SUPER_USER_EMAIL = << >>
    THEN FALSE
    ELSE user.email = auth.SUPER_USER_EMAIL

\* checkIsSuperUser(user); undefined === a string is false
CheckIsSuperUser(user) ==
    IF user = Null \/ auth.SUPER_USER_EMAIL = << >>
    THEN FALSE
    ELSE /\ user.email # Undefined
         /\ Lower(user.email) = Lower(auth.SUPER_USER_EMAIL)

InitIn(userTables, environment) ==
    /\ users \in userTables
    /\ scenarios = { OwnScenario(1, 1,
                        [name |-> "Base Case", description |-> "d1",
                         overrides |-> "target_pe=18.5", base_currency |-> "USD"]) }
    /\ shares = {}
    /\ nextScenarioId = 2
    /\ pc = [c \in Calls |-> "idle"]
    /\ locals = [c \in Calls |-> NoLocals]
    /\ newScenario = [c \in Calls |-> {}]
    /\ newShare = [c \in Calls |-> {}]
    /\ result = [c \in Calls |-> NoResult]
    /\ clock = [now |-> 0, start |-> [c \in Calls |-> 0]]
    /\ direct = NoDirect
    /\ search = NoSearch
    /\ hook = Mounted
    /\ auth = Created(environment)

\* the application deployed with its backend
InitWith(userTables) == InitIn(userTables, Deployed)

Init == InitWith(UserTables)

(***************************************************************************)
(* The queries of react_share_scenario, as functions of the committed      *)
(* tables.                                                                 *)
(***************************************************************************)
\* faulty variant: the source is looked up by id alone
SourceLookupAnyOwner(scen, id, uid) ==
    {s \in scen : s.id = id}

\* SELECT s.* FROM react_scenarios s WHERE s.id = ... AND s.user_id = sender_id
SourceLookup(scen, id, uid) ==
    {s \in scen : s.id = id /\ s.user_id = uid}

\* faulty variant: the input is lowercased but not trimmed
RecipientLookupNoTrim(us, input) ==
    {u \in DOMAIN us : Lower(us[u]) = Lower(input)}

\* SELECT u.id, u.email FROM auth.users u
\*   WHERE lower(u.email) = lower(trim(recipient_email_input))
RecipientLookup(us, input) ==
    {u \in DOMAIN us : Lower(us[u]) = Lower(Trim(input))}

\* the columns of the unique index on react_scenario_shares
ShareKey(r) ==
    <<r.source_scenario_id, r.shared_by_user_id, r.recipient_user_id>>

\* faulty variant: the duplicate check leaves the recipient out
ShareExistsAnyRecipient(sh, source, sender, recipient) ==
    \E rs \in sh : /\ rs.source_scenario_id = source
                   /\ rs.shared_by_user_id = sender

\* EXISTS (SELECT 1 FROM react_scenario_shares rs WHERE ...)
ShareExists(sh, source, sender, recipient) ==
    \E rs \in sh : /\ rs.source_scenario_id = source
                   /\ rs.shared_by_user_id = sender
                   /\ rs.recipient_user_id = recipient

\* faulty variant: the insert leaves is_shared_copy at its default
CopyRowNotMarked(id, src, recipient, sender, senderEmail) ==
    ScenarioRow(id, recipient, ContentOf(src), FALSE, src.id, sender, senderEmail)

\* faulty variant: the copy of a copy refers to the scenario first shared
CopyRowRootProvenance(id, src, recipient, sender, senderEmail) ==
    ScenarioRow(id, recipient, ContentOf(src), TRUE,
                IF src.shared_from_scenario_id # NullId
                THEN src.shared_from_scenario_id ELSE src.id,
                sender, senderEmail)

\* the copy inserted for the recipient
CopyRow(id, src, recipient, sender, senderEmail) ==
    ScenarioRow(id, recipient, ContentOf(src), TRUE, src.id, sender, senderEmail)

\* RETURN QUERY SELECT inserted_id, source_record.name, recipient_id, recipient_email
ReturnRow(inserted, src, recipient, email) ==
    [kind |-> Ok, shared_scenario_id |-> inserted,
     shared_scenario_name |-> src.name, recipient_user_id |-> recipient,
     recipient_email |-> email]

\* the source_record of a call that found one
SourceOf(c) == CHOOSE s \in locals[c].source_record : TRUE

\* the calls that have begun and not ended
InFlight(c) == pc[c] \notin {"idle", "done"}

(***************************************************************************)
(* The end of a transaction.                                               *)
(***************************************************************************)
\* faulty variant: the exception leaves the copy inserted before it in the table
RaiseKeepingCopy(c, kind) ==
    /\ pc' = [pc EXCEPT ![c] = "done"]
    /\ result' = [result EXCEPT ![c] = Failure(kind)]
    /\ locals' = [locals EXCEPT ![c] = NoLocals]
    /\ newScenario' = [newScenario EXCEPT ![c] = {}]
    /\ newShare' = [newShare EXCEPT ![c] = {}]
    /\ scenarios' = scenarios \cup newScenario[c]
    /\ UNCHANGED <<users, shares, nextScenarioId, clock, client>>

\* an exception: the call ends, and what it inserted is discarded
Raise(c, kind) ==
    /\ pc' = [pc EXCEPT ![c] = "done"]
    /\ result' = [result EXCEPT ![c] = Failure(kind)]
    /\ locals' = [locals EXCEPT ![c] = NoLocals]
    /\ newScenario' = [newScenario EXCEPT ![c] = {}]
    /\ newShare' = [newShare EXCEPT ![c] = {}]
    /\ UNCHANGED <<users, scenarios, shares, nextScenarioId, clock, client>>

\* a statement that only assigns the call's variables
Proceed(c, next, loc) ==
    /\ pc' = [pc EXCEPT ![c] = next]
    /\ locals' = [locals EXCEPT ![c] = loc]
    /\ UNCHANGED <<users, scenarios, shares, nextScenarioId,
                   newScenario, newShare, result, clock, client>>

(***************************************************************************)
(* react_share_scenario, statement by statement.                           *)
(***************************************************************************)
\* the statements of react_share_scenario(id, e), called by uid, up to the
\* lookup of the sender's email: the set of ways they can end, each the
\* exception raised or "pass" with the variables assigned (the recipient
\* lookup keeps any one matching row: LIMIT 1)
Pass == "pass"

\* faulty variant: the recipient is resolved and compared before the source is read
FirstStatementsRecipientFirst(us, scen, uid, id, e) ==
    IF uid = NullId
    THEN {[kind |-> AuthenticationRequired, locals |-> NoLocals]}
    ELSE IF RecipientLookup(us, e) = {}
    THEN {[kind |-> RecipientNotFound, locals |-> NoLocals]}
    ELSE {IF r = uid
          THEN [kind |-> SelfShareForbidden, locals |-> NoLocals]
          ELSE IF SourceLookup(scen, id, uid) = {}
          THEN [kind |-> NotFoundOrNotOwned, locals |-> NoLocals]
          ELSE [kind |-> Pass,
                locals |-> [sender_id |-> uid, sender_email |-> us[uid],
                            recipient_id |-> r, recipient_email |-> us[r],
                            source_record |-> SourceLookup(scen, id, uid)]]
          : r \in RecipientLookup(us, e)}

FirstStatements(us, scen, uid, id, e) ==
    IF uid = NullId
    THEN {[kind |-> AuthenticationRequired, locals |-> NoLocals]}
    ELSE IF SourceLookup(scen, id, uid) = {}
    THEN {[kind |-> NotFoundOrNotOwned, locals |-> NoLocals]}
    ELSE IF RecipientLookup(us, e) = {}
    THEN {[kind |-> RecipientNotFound, locals |-> NoLocals]}
    ELSE {IF r = uid
          THEN [kind |-> SelfShareForbidden, locals |-> NoLocals]
          ELSE [kind |-> Pass,
                locals |-> [sender_id |-> uid, sender_email |-> us[uid],
                            recipient_id |-> r, recipient_email |-> us[r],
                            source_record |-> SourceLookup(scen, id, uid)]]
          : r \in RecipientLookup(us, e)}

\* a session calls react_share_scenario(id, e) as user uid (NullId: not signed
\* in) and runs it up to the lookup of the sender's email; of the tables these
\* statements read, only react_scenarios changes, and it is read once
Call(c, uid, id, e) ==
    /\ pc[c] \in {"idle", "done"}
    /\ \E o \in FirstStatements(users, scenarios, uid, id, e) :
         IF o.kind # Pass
         THEN Raise(c, o.kind)
         ELSE /\ pc' = [pc EXCEPT ![c] = "check_exists"]
              /\ locals' = [locals EXCEPT ![c] = o.locals]
              /\ result' = [result EXCEPT ![c] = NoResult]
              /\ clock' = [clock EXCEPT !.start[c] = clock.now]
              /\ UNCHANGED <<users, scenarios, shares, nextScenarioId,
                             newScenario, newShare, client>>

CheckExists(c) ==
    /\ pc[c] = "check_exists"
    /\ IF ShareExists(shares, SourceOf(c).id, locals[c].sender_id, locals[c].recipient_id)
       THEN Raise(c, DuplicateShare)
       ELSE Proceed(c, "insert_scenario", locals[c])

\* INSERT INTO react_scenarios ... RETURNING id INTO inserted_id.  The new row
\* references the source (shared_from_scenario_id), which must still be there.
InsertScenario(c) ==
    /\ pc[c] = "insert_scenario"
    /\ IF SourceOf(c).id \notin {s.id : s \in scenarios}
       THEN Raise(c, ForeignKeyViolation)
       ELSE /\ nextScenarioId <= MaxScenarioId
            /\ newScenario' = [newScenario EXCEPT ![c] =
                 {CopyRow(nextScenarioId, SourceOf(c), locals[c].recipient_id,
                          locals[c].sender_id, locals[c].sender_email)}]
            /\ nextScenarioId' = nextScenarioId + 1
            /\ pc' = [pc EXCEPT ![c] = "insert_share"]
            /\ UNCHANGED <<users, scenarios, shares, locals, newShare, result,
                           clock, client>>

\* faulty variant: the index on the three columns is not UNIQUE
UniqueConflictNever(sh, row) == FALSE

\* the unique index refuses a row whose key a committed row has
UniqueConflict(sh, row) ==
    \E rs \in sh : ShareKey(rs) = ShareKey(row)

\* the calls whose uncommitted share row has the key of row: an insert of row
\* waits until they have committed or rolled back
Blocking(c, row) ==
    {d \in Calls \ {c} : UniqueConflict(newShare[d], row)}

\* INSERT INTO react_scenario_shares, under the unique index
InsertShare(c) ==
    /\ pc[c] = "insert_share"
    /\ LET inserted == CHOOSE s \in newScenario[c] : TRUE
           row == ShareRow(inserted.id, SourceOf(c).id, locals[c].sender_id,
                           locals[c].recipient_id, locals[c].recipient_email,
                           clock.start[c])
       IN /\ Blocking(c, row) = {}
          /\ IF SourceOf(c).id \notin {s.id : s \in scenarios}
             THEN Raise(c, ForeignKeyViolation)
             ELSE IF UniqueConflict(shares, row)
             THEN Raise(c, UniqueViolation)
             ELSE /\ newShare' = [newShare EXCEPT ![c] = {row}]
                  /\ pc' = [pc EXCEPT ![c] = "return"]
                  /\ UNCHANGED <<users, scenarios, shares, nextScenarioId,
                                 locals, newScenario, result, clock, client>>

\* faulty variant: the share row is lost at the end of the call
ReturnWithoutShare(c) ==
    /\ pc[c] = "return"
    /\ scenarios' = scenarios \cup newScenario[c]
    /\ result' = [result EXCEPT ![c] =
          ReturnRow((CHOOSE s \in newScenario[c] : TRUE).id, SourceOf(c),
                    locals[c].recipient_id, locals[c].recipient_email)]
    /\ pc' = [pc EXCEPT ![c] = "done"]
    /\ locals' = [locals EXCEPT ![c] = NoLocals]
    /\ newScenario' = [newScenario EXCEPT ![c] = {}]
    /\ newShare' = [newShare EXCEPT ![c] = {}]
    /\ UNCHANGED <<users, shares, nextScenarioId, clock, client>>

\* RETURN QUERY, END: the transaction commits both rows
Return(c) ==
    /\ pc[c] = "return"
    /\ scenarios' = scenarios \cup newScenario[c]
    /\ shares' = shares \cup newShare[c]
    /\ result' = [result EXCEPT ![c] =
          ReturnRow((CHOOSE s \in newScenario[c] : TRUE).id, SourceOf(c),
                    locals[c].recipient_id, locals[c].recipient_email)]
    /\ pc' = [pc EXCEPT ![c] = "done"]
    /\ locals' = [locals EXCEPT ![c] = NoLocals]
    /\ newScenario' = [newScenario EXCEPT ![c] = {}]
    /\ newShare' = [newShare EXCEPT ![c] = {}]
    /\ UNCHANGED <<users, nextScenarioId, clock, client>>

\* the transaction fails after the copy was inserted (a cancelled request, a
\* lost connection, a server crash)
Abort(c) ==
    /\ pc[c] \in {"insert_share", "return"}
    /\ Raise(c, Aborted)

(***************************************************************************)
(* What owners do to their scenarios outside the share function.           *)
(***************************************************************************)
\* the owner of scenario id edits it
EditScenario(id, content) ==
    /\ \E s \in scenarios :
         /\ s.id = id
         /\ ContentOf(s) # content
         /\ scenarios' = (scenarios \ {s}) \cup
              {[s EXCEPT !.name = content.name,
                         !.description = content.description,
                         !.overrides = content.overrides,
                         !.base_currency = content.base_currency]}
    /\ UNCHANGED <<users, shares, nextScenarioId, pc, locals,
                   newScenario, newShare, result, clock, client>>

\* faulty variant: shared_from_scenario_id declared ON DELETE CASCADE
ScenariosAfterDeleteCascade(scen, id) ==
    {s \in scen : s.id # id /\ s.shared_from_scenario_id # id}

\* react_scenarios after the row id is deleted: copies made from it keep
\* living, with shared_from_scenario_id set to NULL
ScenariosAfterDelete(scen, id) ==
    {IF s.shared_from_scenario_id = id
     THEN [s EXCEPT !.shared_from_scenario_id = NullId]
     ELSE s : s \in {t \in scen : t.id # id}}

\* faulty variant: a share row goes with the copy made along with it
SharesAfterDeleteWithCopy(sh, id) ==
    {rs \in sh : rs.source_scenario_id # id /\ rs.id # id}

\* faulty variant: source_scenario_id declared without ON DELETE CASCADE
SharesAfterDeleteKept(sh, id) == sh

\* react_scenario_shares after scenario id is deleted: ON DELETE CASCADE
SharesAfterDelete(sh, id) ==
    {rs \in sh : rs.source_scenario_id # id}

\* uncommitted rows that reference scenario id hold it against deletion
Referenced(id) ==
    \E c \in Calls :
       \/ \E s \in newScenario[c] : s.shared_from_scenario_id = id
       \/ \E rs \in newShare[c] : rs.source_scenario_id = id

\* the owner of scenario id deletes it
DeleteScenario(id) ==
    /\ \E s \in scenarios : s.id = id
    /\ ~Referenced(id)
    /\ scenarios' = ScenariosAfterDelete(scenarios, id)
    /\ shares' = SharesAfterDelete(shares, id)
    /\ UNCHANGED <<users, nextScenarioId, pc, locals,
                   newScenario, newShare, result, clock, client>>

(***************************************************************************)
(* react_search_users_by_email.                                            *)
(***************************************************************************)
\* a NULL query_text: no text, and not the empty text
NullQuery == <<"NULL">>

\* coalesce(query_text, '')
Coalesce(q, other) == IF q = NullQuery THEN other ELSE q

\* lower(trim(coalesce(query_text, '')))
NormalizedQuery(q) == Lower(Trim(Coalesce(q, << >>)))

\* text LIKE pattern: % stands for any text, _ for any one character, and a
\* backslash takes the character after it literally
RECURSIVE Like(_, _)
Like(s, p) ==
    IF p = << >> THEN s = << >>
    ELSE IF Head(p) = "%"
    THEN \E k \in 0..Len(s) : Like(SubSeq(s, k + 1, Len(s)), Tail(p))
    ELSE IF Head(p) = "\\" /\ Len(p) >= 2
    THEN /\ s # << >>
         /\ Head(s) = p[2]
         /\ Like(Tail(s), Tail(Tail(p)))
    ELSE /\ s # << >>
         /\ Head(p) = "_" \/ Head(p) = Head(s)
         /\ Like(Tail(s), Tail(p))

\* the characters of the emails and queries, in the order of their codes
Alphabet ==
    <<" ", "%", "0", "1", "2", "3", "4", "5", "6", "7", "8", "9",
      "A", "B", "C", "L", "O", "Y", "Z", "\\", "_",
      "a", "b", "c", "l", "o", "x", "y", "z">>

CharCode(ch) == CHOOSE i \in DOMAIN Alphabet : Alphabet[i] = ch

\* s sorts before t: ORDER BY on text
RECURSIVE TextLess(_, _)
TextLess(s, t) ==
    IF t = << >> THEN FALSE
    ELSE IF s = << >> THEN TRUE
    ELSE IF Head(s) # Head(t) THEN CharCode(Head(s)) < CharCode(Head(t))
    ELSE TextLess(Tail(s), Tail(t))

\* faulty variant: the test on the length of the query lets one character pass
QueryTooShortOne(nq) == Len(nq) < 1

\* length(normalized_query) < 2
QueryTooShort(nq) == Len(nq) < 2

\* faulty variant: the WHERE clause without u.id <> auth.uid()
MatchingWithCaller(us, uid, nq) ==
    {u \in DOMAIN us : /\ us[u] # NullText
                        /\ Like(Lower(us[u]), nq \o <<"%">>)}

\* WHERE u.email IS NOT NULL AND lower(u.email) LIKE normalized_query || '%'
\*   AND u.id <> auth.uid()
Matching(us, uid, nq) ==
    {u \in DOMAIN us : /\ us[u] # NullText
                        /\ Like(Lower(us[u]), nq \o <<"%">>)
                        /\ u # uid}

\* ORDER BY u.email: the users of set in the order of their emails
RECURSIVE OrderByEmail(_, _)
OrderByEmail(us, set) ==
    IF set = {} THEN << >>
    ELSE LET first == CHOOSE u \in set :
                         \A v \in set \ {u} : ~TextLess(us[v], us[u])
         IN <<first>> \o OrderByEmail(us, set \ {first})

\* LIMIT n
Limit(rows, n) == SubSeq(rows, 1, IF Len(rows) < n THEN Len(rows) ELSE n)

SearchLimit == 10

\* RETURN QUERY SELECT u.id, u.email FROM auth.users u WHERE ... LIMIT 10
SearchRows(us, uid, nq) ==
    LET found == Limit(OrderByEmail(us, Matching(us, uid, nq)), SearchLimit)
    IN [i \in DOMAIN found |-> [user_id |-> found[i], email |-> us[found[i]]]]

SearchAnswer(uid, q, kind, rows) ==
    [uid |-> uid, query |-> q, kind |-> kind, rows |-> rows]

\* client uid calls react_search_users_by_email(q)
Search(uid, q) ==
    /\ search' =
          IF uid = NullId
          THEN SearchAnswer(uid, q, AuthenticationRequired, << >>)
          ELSE IF QueryTooShort(NormalizedQuery(q))
          THEN SearchAnswer(uid, q, Ok, << >>)
          ELSE SearchAnswer(uid, q, Ok, SearchRows(users, uid, NormalizedQuery(q)))
    /\ UNCHANGED <<users, scenarios, shares, nextScenarioId, pc, locals,
                   newScenario, newShare, result, clock, direct, hook, auth>>

\* auth.users with more users than a search returns: twelve emails that
\* begin with "ab" up to letter case, and three that do not
SearchEmails ==
    << <<"a", "b", "0">>, <<"A", "B", "1">>, <<"a", "b", "2">>,
       <<"a", "B", "3">>, <<"a", "b", "4">>, <<"a", "b", "5">>,
       <<"A", "b", "6">>, <<"a", "b", "7">>, <<"a", "b", "8">>,
       <<"a", "b", "9">>, <<"a", "b", "a">>, <<"a", "b", "%">>,
       <<"a", "c", "b">>, <<"x", "a", "b">>, <<"a", "_", "b">> >>

SearchUserTables == UserTables \cup {SearchEmails}

\* the query_text arguments tried
Queries ==
    { NullQuery, << >>, <<" ", " ">>, <<"a">>, <<" ", "A", " ">>,
      <<"a", "b">>, <<" ", "A", "b", " ">>, <<"a", "b", "1">>,
      <<"a", "_">>, <<"%", "b">>, <<"_", "_">>, <<"a", "b", "\\">>,
      <<"x", "a">>, <<"b", "o">>, <<"z", "z">> }

\* who searches: nobody, or some of the users
SearchCallers == {NullId} \cup {u \in DOMAIN SearchEmails : u <= 2 \/ u >= Len(SearchEmails) - 1}

(***************************************************************************)
(* Row level security on react_scenario_shares: what a client (signed in   *)
(* or anonymous) gets when it runs a statement on the table itself.  A     *)
(* policy's expression is evaluated per row in SQL's three-valued logic    *)
(* and lets the row through when it is true.                               *)
(***************************************************************************)
SqlTrue == "true"
SqlFalse == "false"
SqlNull == "null"

\* a = b, where auth.uid() of an anonymous client is NULL
SqlEq(a, b) ==
    IF a = NullId \/ b = NullId THEN SqlNull
    ELSE IF a = b THEN SqlTrue ELSE SqlFalse

SqlOr(x, y) ==
    IF x = SqlTrue \/ y = SqlTrue THEN SqlTrue
    ELSE IF x = SqlNull \/ y = SqlNull THEN SqlNull ELSE SqlFalse

\* faulty variant: a policy that lets the sender of a row through
PolicySenderOnly(uid, row) == SqlEq(uid, row.shared_by_user_id)

\* faulty variant: a policy that lets the recipient of a row through
PolicyRecipientOnly(uid, row) == SqlEq(uid, row.recipient_user_id)

\* "Users can view shares they sent or received": FOR SELECT USING (...)
SelectPolicy(uid, row) ==
    SqlOr(SqlEq(uid, row.shared_by_user_id), SqlEq(uid, row.recipient_user_id))

\* "No direct insert into scenario shares": FOR INSERT WITH CHECK (FALSE)
InsertPolicy(uid, row) == SqlFalse

\* "No direct update on scenario shares": FOR UPDATE USING (FALSE)
UpdatePolicy(uid, row) == SqlFalse

\* "No direct delete on scenario shares": FOR DELETE USING (FALSE)
DeletePolicy(uid, row) == SqlFalse

\* the clients of the database: the signed-in users and the anonymous one
Clients == UserIds \cup {NullId}

\* the rows a client tries to insert: a share of a scenario by its owner to
\* another user, dated at any time up to now
ForgedRows ==
    {ShareRow(NullId, s.id, s.user_id, b, users[b], t) :
       s \in scenarios, b \in UserIds, t \in 0..clock.now}

Answer(op, uid, outcome, rows) ==
    [op |-> op, uid |-> uid, outcome |-> outcome, rows |-> rows]

Denied == "new row violates row-level security policy"
Done == "ok"

\* SELECT * FROM react_scenario_shares, by client uid
DirectSelect(uid) ==
    /\ direct' = Answer("select", uid, Done,
                        {rs \in shares : SelectPolicy(uid, rs) = SqlTrue})
    /\ UNCHANGED <<users, scenarios, shares, nextScenarioId, pc, locals,
                   newScenario, newShare, result, clock, search, hook, auth>>

\* INSERT INTO react_scenario_shares VALUES (row), by client uid
DirectInsert(uid, row) ==
    /\ IF InsertPolicy(uid, row) # SqlTrue
       THEN /\ direct' = Answer("insert", uid, Denied, {})
            /\ UNCHANGED shares
       ELSE /\ ~UniqueConflict(shares, row)
            /\ \A c \in Calls : ~UniqueConflict(newShare[c], row)
            /\ direct' = Answer("insert", uid, Done, {row})
            /\ shares' = shares \cup {row}
    /\ UNCHANGED <<users, scenarios, nextScenarioId, pc, locals,
                   newScenario, newShare, result, clock, search, hook, auth>>

\* UPDATE react_scenario_shares SET recipient_email = email, created_at = at
\*   WHERE id = target.id, by client uid: the rows the policy lets through
DirectUpdate(uid, target, email, at) ==
    /\ target \in shares
    /\ LET hit == {rs \in {target} : UpdatePolicy(uid, rs) = SqlTrue}
       IN /\ shares' = (shares \ hit) \cup
                {[rs EXCEPT !.recipient_email = email, !.created_at = at] :
                   rs \in hit}
          /\ direct' = Answer("update", uid, Done, hit)
    /\ UNCHANGED <<users, scenarios, nextScenarioId, pc, locals,
                   newScenario, newShare, result, clock, search, hook, auth>>

\* DELETE FROM react_scenario_shares WHERE id = target.id, by client uid
DirectDelete(uid, target) ==
    /\ target \in shares
    /\ LET hit == {rs \in {target} : DeletePolicy(uid, rs) = SqlTrue}
       IN /\ shares' = shares \ hit
          /\ direct' = Answer("delete", uid, Done, hit)
    /\ UNCHANGED <<users, scenarios, nextScenarioId, pc, locals,
                   newScenario, newShare, result, clock, search, hook, auth>>

\* time passes on the server
Tick ==
    /\ clock.now < MaxTime
    /\ clock' = [clock EXCEPT !.now = @ + 1]
    /\ UNCHANGED <<users, scenarios, shares, nextScenarioId, pc, locals,
                   newScenario, newShare, result, direct, search, hook, auth>>

(***************************************************************************)
(* useMacroPreview: the events it renders after.                           *)
(***************************************************************************)
shareState == <<users, scenarios, shares, nextScenarioId, pc, locals,
                newScenario, newShare, result, clock, direct, search, auth>>

\* a function or object created anew is not the one before
Fresh(old, one, other) == IF old = one THEN other ELSE one

\* the store gives macro[region] a new object, or the hook is given another
\* region: the hook renders and runs its effect
AfterStoreChange(h) == Effect(Render(h))

\* the user sets a building block of the region shown
SetBuildingBlock(key, value) ==
    /\ hook' = AfterStoreChange([hook EXCEPT !.macro[hook.region][key] = value])
    /\ UNCHANGED shareState

\* the user overrides (on) or resets a direct forecast field; the store may
\* hand out the same isMacroDirty function or a new one
SetDirectForecast(field, on, sameFunction) ==
    /\ hook' = AfterStoreChange(
          [hook EXCEPT !.dirty[hook.region] =
                          IF on THEN @ \cup {field} ELSE @ \ {field},
                       !.isMacroDirty =
                          IF sameFunction THEN @
                          ELSE Fresh(@, "isMacroDirty", "isMacroDirty'")])
    /\ UNCHANGED shareState

\* the component is given another region
ChangeRegion(region) ==
    /\ region # hook.region
    /\ hook' = AfterStoreChange([hook EXCEPT !.region = region])
    /\ UNCHANGED shareState

\* the 300 ms of a timeout are over: its fetchPreview begins
TimeoutFires(request) ==
    /\ request \in hook.timeouts
    /\ Len(hook.fetching) < MaxFetches
    /\ hook' = Render([hook EXCEPT !.timeouts = @ \ {request},
                                    !.isLoading = TRUE,
                                    !.fetching = Append(@, request)])
    /\ UNCHANGED shareState

\* the requests under way without the i-th
WithoutRequest(fetching, i) ==
    SubSeq(fetching, 1, i - 1) \o SubSeq(fetching, i + 1, Len(fetching))

\* what calculateMacroPreview answers a request with: a new object, the
\* preview calculated of the building blocks of the request
Preview(old, request) ==
    [object |-> Fresh(old.object, "preview", "preview'"), of |-> request]

\* calculateMacroPreview answers the i-th request under way:
\* setComputed(result), setError(null), setIsLoading(false)
PreviewArrives(i) ==
    /\ i \in DOMAIN hook.fetching
    /\ hook' = Render([hook EXCEPT
                         !.computed = Preview(@, hook.fetching[i]),
                         !.error = NoError, !.isLoading = FALSE,
                         !.fetching = WithoutRequest(@, i)])
    /\ UNCHANGED shareState

\* calculateMacroPreview throws on the i-th request under way:
\* setError(message), setIsLoading(false)
PreviewFails(i) ==
    /\ i \in DOMAIN hook.fetching
    /\ hook' = Render([hook EXCEPT !.error = "Preview calculation failed",
                                    !.isLoading = FALSE,
                                    !.fetching = WithoutRequest(@, i)])
    /\ UNCHANGED shareState

(***************************************************************************)
(* useAuthStore: its actions.  A call that awaits the backend is two       *)
(* steps: up to the await, and from the backend's answer to the return.    *)
(***************************************************************************)
authRest == <<users, scenarios, shares, nextScenarioId, pc, locals,
              newScenario, newShare, result, clock, direct, search, hook>>

\* error.message of an error the backend answers with
BackendMessages == {"Invalid login credentials"}

\* err.message of what an awaited call throws: a message or none
ThrownMessages == {"Failed to fetch", ""}

Awaiting == auth.awaiting["initialize"] + auth.awaiting["signIn"]
              + auth.awaiting["signUp"] + auth.awaiting["signOut"]

\* the call returns value
Returns(store, call, value) ==
    [store EXCEPT !.returned = [call |-> call, value |-> value,
                                turn |-> 1 - @.turn]]

\* the call reaches its await
Awaits(store, call) == [store EXCEPT !.awaiting[call] = @ + 1]

\* the awaited call of the backend ends and the call returns value
Resumes(store, call, value) ==
    Returns([store EXCEPT !.awaiting[call] = @ - 1], call, value)

\* initialize(), up to await supabase.auth.getSession()
Initialize ==
    /\ \/ /\ ~auth.supabase
          /\ auth' = Returns([auth EXCEPT !.isLoading = FALSE,
                                           !.isConfigured = FALSE],
                             "initialize", Void)
       \/ /\ auth.supabase
          /\ Awaiting < MaxAuthCalls
          /\ auth' = Awaits([auth EXCEPT !.isConfigured = TRUE], "initialize")
    /\ UNCHANGED authRest

\* getSession() answers an error
GetSessionFails(message) ==
    /\ auth.awaiting["initialize"] > 0
    /\ auth' = Resumes([auth EXCEPT !.isLoading = FALSE, !.error = message],
                       "initialize", Void)
    /\ UNCHANGED authRest

\* getSession() answers the session or null; the listener is registered,
\* or onAuthStateChange throws and the catch block runs
GetSessionArrives(session, registered) ==
    /\ auth.awaiting["initialize"] > 0
    /\ auth' = Resumes([auth EXCEPT !.session = session,
                                    !.user = UserOf(session),
                                    !.isLoading = FALSE,
                                    !.isSuperUser = CheckIsSuperUser(UserOf(session)),
                                    !.listening = @ \/ registered],
                       "initialize", Void)
    /\ UNCHANGED authRest

\* getSession() throws
GetSessionThrows ==
    /\ auth.awaiting["initialize"] > 0
    /\ auth' = Resumes([auth EXCEPT !.isLoading = FALSE], "initialize", Void)
    /\ UNCHANGED authRest

\* the callback given to onAuthStateChange
AuthStateChange(session) ==
    /\ auth.listening
    /\ auth' = [auth EXCEPT !.session = session,
                            !.user = UserOf(session),
                            !.isSuperUser = CheckIsSuperUser(UserOf(session))]
    /\ UNCHANGED authRest

\* signIn(email, password) and signUp(email, password), up to the await
Begins(call) ==
    /\ \/ /\ ~auth.supabase
          /\ auth' = Returns(auth, call,
                             [success |-> FALSE, error |-> "Supabase not configured"])
       \/ /\ auth.supabase
          /\ Awaiting < MaxAuthCalls
          /\ auth' = Awaits([auth EXCEPT !.isLoading = TRUE, !.error = NoError],
                            call)
    /\ UNCHANGED authRest

SignIn == Begins("signIn")

SignUp == Begins("signUp")

\* the backend answers signInWithPassword or signUp with an error
SignFails(call, message) ==
    /\ call \in {"signIn", "signUp"}
    /\ auth.awaiting[call] > 0
    /\ auth' = Resumes([auth EXCEPT !.isLoading = FALSE, !.error = message],
                       call, [success |-> FALSE, error |-> message])
    /\ UNCHANGED authRest

\* faulty variant: the message thrown is used as it is
MessageOfThrown(call, message) == message

\* err.message || 'Sign in failed', err.message || 'Sign up failed'
MessageOf(call, message) ==
    IF message # "" THEN message
    ELSE IF call = "signIn" THEN "Sign in failed" ELSE "Sign up failed"

\* signInWithPassword or signUp throws
SignThrows(call, message) ==
    /\ call \in {"signIn", "signUp"}
    /\ auth.awaiting[call] > 0
    /\ auth' = Resumes([auth EXCEPT !.isLoading = FALSE,
                                    !.error = MessageOf(call, message)],
                       call,
                       [success |-> FALSE, error |-> MessageOf(call, message)])
    /\ UNCHANGED authRest

\* { success: true }: no error
Success == [success |-> TRUE, error |-> "undefined"]

\* signInWithPassword answers data.user and data.session; signUp answers
\* data.user, and data.session or null when the email is to be confirmed
SignArrives(call, user, session) ==
    /\ call \in {"signIn", "signUp"}
    /\ auth.awaiting[call] > 0
    /\ session = SessionOf(user) \/ (call = "signUp" /\ session = Null)
    /\ auth' = Resumes([auth EXCEPT !.session = session,
                                    !.user = user,
                                    !.isLoading = FALSE,
                                    !.isSuperUser = CheckIsSuperUser(user)],
                       call, Success)
    /\ UNCHANGED authRest

\* signOut(), up to await supabase.auth.signOut()
SignOut ==
    /\ \/ /\ ~auth.supabase
          /\ auth' = Returns(auth, "signOut", Void)
       \/ /\ auth.supabase
          /\ Awaiting < MaxAuthCalls
          /\ auth' = Awaits([auth EXCEPT !.isLoading = TRUE], "signOut")
    /\ UNCHANGED authRest

\* supabase.auth.signOut() ends
SignOutArrives ==
    /\ auth.awaiting["signOut"] > 0
    /\ auth' = Resumes([auth EXCEPT !.user = Null, !.session = Null,
                                    !.isLoading = FALSE,
                                    !.isSuperUser = FALSE],
                       "signOut", Void)
    /\ UNCHANGED authRest

\* supabase.auth.signOut() throws
SignOutThrows ==
    /\ auth.awaiting["signOut"] > 0
    /\ auth' = Resumes([auth EXCEPT !.isLoading = FALSE], "signOut", Void)
    /\ UNCHANGED authRest

\* clearError()
ClearError ==
    /\ auth' = [auth EXCEPT !.error = NoError]
    /\ UNCHANGED authRest

Next ==
    \/ \E c \in Calls, uid \in Callers, id \in ScenarioIds, e \in EmailInputs :
          Call(c, uid, id, e)
    \/ \E c \in Calls : CheckExists(c)
    \/ \E c \in Calls : InsertScenario(c)
    \/ \E c \in Calls : InsertShare(c)
    \/ \E c \in Calls : Return(c)
    \/ \E c \in Calls : Abort(c)
    \/ \E id \in ScenarioIds, content \in Contents : EditScenario(id, content)
    \/ \E id \in ScenarioIds : DeleteScenario(id)

Spec == Init /\ [][Next]_vars

(***************************************************************************)
(* The same operations with the calls run one after the other, each to its *)
(* end, and the owners' edits and deletions between calls.                 *)
(***************************************************************************)
NoneInFlight == \A c \in Calls : ~InFlight(c)

NextSeq ==
    \/ /\ NoneInFlight
       /\ \/ \E c \in Calls, uid \in Callers, id \in ScenarioIds, e \in EmailInputs :
                Call(c, uid, id, e)
          \/ \E id \in ScenarioIds, content \in Contents : EditScenario(id, content)
          \/ \E id \in ScenarioIds : DeleteScenario(id)
    \/ \E c \in Calls :
          CheckExists(c) \/ InsertScenario(c) \/ InsertShare(c) \/ Return(c)

SpecSeq == Init /\ [][NextSeq]_vars

\* the same, over auth.users with emails that differ in letter case only
InitAmbiguous == InitWith(AmbiguousUserTables)

SpecAmbiguous == InitAmbiguous /\ [][NextSeq]_vars

(***************************************************************************)
(* One session calling react_share_scenario, the owners' deletions, time   *)
(* passing, and clients running statements on react_scenario_shares        *)
(* itself.                                                                 *)
(***************************************************************************)
FirstCall == CHOOSE c \in Calls : \A d \in Calls : c <= d

NextRls ==
    \/ \E uid \in Callers, id \in ScenarioIds, e \in EmailInputs :
          Call(FirstCall, uid, id, e)
    \/ CheckExists(FirstCall)
    \/ InsertScenario(FirstCall)
    \/ InsertShare(FirstCall)
    \/ Return(FirstCall)
    \/ \E id \in ScenarioIds : DeleteScenario(id)
    \/ Tick
    \/ \E uid \in Clients : DirectSelect(uid)
    \/ \E uid \in Clients, row \in ForgedRows : DirectInsert(uid, row)
    \/ \E uid \in Clients, target \in shares, b \in UserIds, t \in 0..clock.now :
          DirectUpdate(uid, target, users[b], t)
    \/ \E uid \in Clients, target \in shares : DirectDelete(uid, target)

SpecRls == Init /\ [][NextRls]_vars

(***************************************************************************)
(* Clients searching for recipients.                                       *)
(***************************************************************************)
InitSearch == InitWith(SearchUserTables)

NextSearch == \E uid \in SearchCallers, q \in Queries : Search(uid, q)

SpecSearch == InitSearch /\ [][NextSearch]_vars

(***************************************************************************)
(* The macro preview hook in one region and its user.                      *)
(***************************************************************************)
NextMacro ==
    \/ \E key \in BuildingBlockKeys :
          \E value \in BlockValues(hook.region, key) :
             SetBuildingBlock(key, value)
    \/ \E field \in DirectFields, on \in BOOLEAN, sameFunction \in BOOLEAN :
          SetDirectForecast(field, on, sameFunction)
    \/ \E request \in hook.timeouts : TimeoutFires(request)
    \/ \E i \in 1..MaxFetches : PreviewArrives(i)
    \/ \E i \in 1..MaxFetches : PreviewFails(i)

SpecMacro == Init /\ [][NextMacro]_vars

(***************************************************************************)
(* The macro preview hook, its user editing the building blocks and        *)
(* switching between regions.                                              *)
(***************************************************************************)
NextPreview ==
    \/ \E key \in BuildingBlockKeys :
          \E value \in BlockValues(hook.region, key) :
             SetBuildingBlock(key, value)
    \/ \E region \in Regions : ChangeRegion(region)
    \/ \E request \in hook.timeouts : TimeoutFires(request)
    \/ \E i \in 1..MaxFetches : PreviewArrives(i)
    \/ \E i \in 1..MaxFetches : PreviewFails(i)

SpecPreview == Init /\ [][NextPreview]_vars

(***************************************************************************)
(* The auth store in each build, its callers and the backend.              *)
(***************************************************************************)
InitAuth == \E environment \in Environments : InitIn(UserTables, environment)

Sessions == {Null} \cup {SessionOf(user) : user \in AuthUsers}

NextAuth ==
    \/ Initialize
    \/ \E message \in BackendMessages : GetSessionFails(message)
    \/ \E session \in Sessions, registered \in BOOLEAN :
          GetSessionArrives(session, registered)
    \/ GetSessionThrows
    \/ \E session \in Sessions : AuthStateChange(session)
    \/ SignIn
    \/ SignUp
    \/ \E call \in AuthCalls, message \in BackendMessages :
          SignFails(call, message)
    \/ \E call \in AuthCalls, message \in ThrownMessages :
          SignThrows(call, message)
    \/ \E call \in AuthCalls, user \in AuthUsers, session \in Sessions :
          SignArrives(call, user, session)
    \/ SignOut
    \/ SignOutArrives
    \/ SignOutThrows
    \/ ClearError

SpecAuth == InitAuth /\ [][NextAuth]_vars

(***************************************************************************)
(* Notions the properties below share.                                     *)
(***************************************************************************)
\* (source scenario, sender, recipient) of a share row
Triple(rs) ==
    <<rs.source_scenario_id, rs.shared_by_user_id, rs.recipient_user_id>>

\* the triple a call past the first statements is working on
TripleOf(c) ==
    <<SourceOf(c).id, locals[c].sender_id, locals[c].recipient_id>>

Ids(scen) == {s.id : s \in scen}

\* call c ends in this step
Ends(c) == pc[c] # "done" /\ pc'[c] = "done"

\* call c has passed the duplicate check
PassedChecks(c) == pc[c] \in {"insert_scenario", "insert_share", "return"}

(***************************************************************************)
(* C1: in every reachable state react_scenario_shares holds at most one    *)
(* row for each (source scenario, sender, recipient) triple, whatever the  *)
(* interleaving of the concurrent calls.                                   *)
(***************************************************************************)
C1_AtMostOneSharePerTriple ==
    \A r1 \in shares, r2 \in shares : Triple(r1) = Triple(r2) => r1 = r2

\* a call lost against a committed share of its triple
C1_Witness ==
    \E c \in Calls :
       /\ pc[c] = "done"
       /\ result[c].kind = UniqueViolation
       /\ Cardinality(shares) >= 1

(***************************************************************************)
(* C2: of two concurrent share attempts for the same triple, both past the *)
(* duplicate check before either inserted, one succeeds and the other      *)
(* fails with DuplicateShare, leaving the tables as the winner left them.  *)
(* Stated of the step that ends the loser: the call finds a committed share*)
(* row of its triple when it inserts its own.                              *)
(***************************************************************************)
C2_RaceLoserFailsWithDuplicateShare ==
    [][\A c \in Calls :
         (/\ pc[c] = "insert_share"
          /\ Ends(c)
          /\ result'[c].kind # Aborted
          /\ \E rs \in shares : Triple(rs) = TripleOf(c))
         => /\ result'[c].kind = DuplicateShare
            /\ UNCHANGED tables]_vars

\* what does hold of the race: the loser fails and leaves no row behind
C2_RaceLeavesOneCopy ==
    [][\A c \in Calls :
         (/\ pc[c] = "insert_share"
          /\ Ends(c)
          /\ \E rs \in shares : Triple(rs) = TripleOf(c))
         => /\ result'[c].kind \in {UniqueViolation, Aborted}
            /\ UNCHANGED tables]_vars

(***************************************************************************)
(* C3: a call that does not succeed leaves react_scenarios and             *)
(* react_scenario_shares as they were, whether a precondition failed or    *)
(* the failure came after the copy was inserted; and no step commits a     *)
(* copy without its share row or a share row without its copy.             *)
(***************************************************************************)
C3_FailedCallChangesNothing ==
    [][/\ \A c \in Calls :
            (Ends(c) /\ result'[c].kind # Ok) => UNCHANGED tables
       /\ (Ids(scenarios') \ Ids(scenarios) # {}) <=> (shares' \ shares # {})
       /\ Cardinality(Ids(scenarios') \ Ids(scenarios)) <= 1
       /\ Cardinality(shares' \ shares) <= 1
       /\ (\A c \in Calls : pc'[c] = pc[c]) =>
             (Ids(scenarios') \subseteq Ids(scenarios) /\ shares' \subseteq shares)
      ]_vars

\* a call failed after it had inserted its copy
C3_Witness ==
    \E c \in Calls : pc[c] = "done" /\ result[c].kind = Aborted

(***************************************************************************)
(* C4: with the calls run one after the other: a call by the owner A of S  *)
(* for a registered recipient B other than A passes the first four checks; *)
(* it succeeds, adding the share row of (S, A, B), when no such row is     *)
(* there, and fails with DuplicateShare, adding nothing, when one is; and  *)
(* the row stays for as long as S exists, so every later identical call    *)
(* fails.                                                                  *)
(***************************************************************************)
C4_ShareOnceThenDuplicate ==
    /\ [](\A s \in scenarios, b \in UserIds, e \in EmailInputs :
            (b # s.user_id /\ Lower(Trim(e)) = Lower(users[b])) =>
               \A o \in FirstStatements(users, scenarios, s.user_id, s.id, e) :
                  /\ o.kind = Pass
                  /\ o.locals.recipient_id = b
                  /\ o.locals.sender_id = s.user_id
                  /\ o.locals.source_record = {s})
    /\ [](\A c \in Calls : pc[c] = "done" =>
            result[c].kind \in {Ok, AuthenticationRequired, NotFoundOrNotOwned,
                                RecipientNotFound, SelfShareForbidden,
                                DuplicateShare})
    /\ [][/\ \A c \in Calls : (InFlight(c) /\ Ends(c)) =>
                IF \E rs \in shares : Triple(rs) = TripleOf(c)
                THEN /\ result'[c].kind = DuplicateShare
                     /\ UNCHANGED tables
                ELSE /\ result'[c].kind = Ok
                     /\ \E rs \in shares' : Triple(rs) = TripleOf(c)
                     /\ Cardinality(shares') = Cardinality(shares) + 1
                     /\ Cardinality(scenarios') = Cardinality(scenarios) + 1
           /\ \A rs \in shares :
                rs.source_scenario_id \in Ids(scenarios') => rs \in shares'
          ]_vars

\* the second of two identical calls was refused
C4_Witness ==
    \E c \in Calls :
       /\ pc[c] = "done"
       /\ result[c].kind = DuplicateShare
       /\ Cardinality(shares) = 1
       /\ Cardinality(scenarios) = 2

C6_CopyAndShareRowContents ==
    [][\A c \in Calls :
         /\ (pc[c] \in {"idle", "done"} /\ pc'[c] = "check_exists") =>
               /\ locals'[c].source_record \subseteq scenarios
               /\ Cardinality(locals'[c].source_record) = 1
               /\ \A s \in locals'[c].source_record :
                     s.user_id = locals'[c].sender_id
               /\ locals'[c].sender_id \in UserIds
               /\ locals'[c].recipient_id \in UserIds \ {locals'[c].sender_id}
               /\ locals'[c].sender_email = users[locals'[c].sender_id]
               /\ locals'[c].recipient_email = users[locals'[c].recipient_id]
         /\ (InFlight(c) /\ pc'[c] # "done") => locals'[c] = locals[c]
         /\ (InFlight(c) /\ Ends(c) /\ result'[c].kind = Ok) =>
               LET src == SourceOf(c)
                   new == result'[c].shared_scenario_id
               IN /\ new \notin Ids(scenarios)
                  /\ scenarios' = scenarios \cup
                       {[id |-> new,
                         user_id |-> locals[c].recipient_id,
                         name |-> src.name,
                         description |-> src.description,
                         overrides |-> src.overrides,
                         base_currency |-> src.base_currency,
                         is_shared_copy |-> TRUE,
                         shared_from_scenario_id |-> src.id,
                         shared_by_user_id |-> locals[c].sender_id,
                         shared_by_email |-> users[locals[c].sender_id]]}
                  /\ \E rs \in shares' \ shares :
                       /\ shares' = shares \cup {rs}
                       /\ rs.source_scenario_id = src.id
                       /\ rs.shared_by_user_id = locals[c].sender_id
                       /\ rs.recipient_user_id = locals[c].recipient_id
                       /\ rs.recipient_email = users[locals[c].recipient_id]
                  /\ result'[c].shared_scenario_name = src.name
                  /\ result'[c].recipient_user_id = locals[c].recipient_id
                  /\ result'[c].recipient_email = users[locals[c].recipient_id]
      ]_vars

\* a call returned the copy of a source that was edited since it was read
C6_Witness ==
    \E c \in Calls, s \in scenarios, t \in scenarios :
       /\ pc[c] = "done" /\ result[c].kind = Ok
       /\ t.id = result[c].shared_scenario_id
       /\ t.is_shared_copy
       /\ s.id = t.shared_from_scenario_id
       /\ ContentOf(s) # ContentOf(t)

(***************************************************************************)
(* The five preconditions of a call react_share_scenario(id, e) by uid, as *)
(* the contract words them, each on its own, in the current tables.        *)
(***************************************************************************)
Resolved(e) == {u \in UserIds : Lower(users[u]) = Lower(Trim(e))}

Violated(uid, id, e) ==
    {i \in 1..5 :
       CASE i = 1 -> uid \notin UserIds
         [] i = 2 -> ~\E s \in scenarios : s.id = id /\ s.user_id = uid
         [] i = 3 -> Resolved(e) = {}
         [] i = 4 -> uid \in Resolved(e)
         [] OTHER -> \E rs \in shares, b \in Resolved(e) :
                        Triple(rs) = <<id, uid, b>>}

FailureOf(i) ==
    CASE i = 1 -> AuthenticationRequired
      [] i = 2 -> NotFoundOrNotOwned
      [] i = 3 -> RecipientNotFound
      [] i = 4 -> SelfShareForbidden
      [] OTHER -> DuplicateShare

\* how the call ends when no other operation runs before its duplicate check:
\* the first statements, then the check on the share rows
ChecksEndWith(uid, id, e) ==
    {IF o.kind # Pass THEN o.kind
     ELSE IF ShareExists(shares, (CHOOSE s \in o.locals.source_record : TRUE).id,
                         o.locals.sender_id, o.locals.recipient_id)
     THEN DuplicateShare
     ELSE Pass
     : o \in FirstStatements(users, scenarios, uid, id, e)}

(***************************************************************************)
(* C7: the five precondition failures are five different kinds, and a call *)
(* ends with the failure of the earliest precondition it violates          *)
(* (authentication, source owned, recipient resolves, recipient is not the *)
(* caller, no share row of the triple), or passes when it violates none;   *)
(* only a call that passed the first four reaches the duplicate check.     *)
(***************************************************************************)
C7_EarliestViolatedPreconditionReported ==
    /\ Cardinality({FailureOf(i) : i \in 1..5}) = 5
    /\ \A uid \in Callers, id \in ScenarioIds, e \in EmailInputs :
          LET v == Violated(uid, id, e)
          IN ChecksEndWith(uid, id, e) =
               IF v = {} THEN {Pass}
               ELSE {FailureOf(CHOOSE i \in v : \A j \in v : i <= j)}
    /\ \A c \in Calls : InFlight(c) =>
          /\ locals[c].sender_id \in UserIds
          /\ locals[c].recipient_id \in UserIds \ {locals[c].sender_id}
          /\ \E s \in locals[c].source_record : s.user_id = locals[c].sender_id

\* a call ended with NotFoundOrNotOwned in a state where a call on a scenario
\* of another owner to the caller's own email violates preconditions 2 and 4
C7_Witness ==
    /\ \E c \in Calls : pc[c] = "done" /\ result[c].kind = NotFoundOrNotOwned
    /\ \E uid \in UserIds, id \in Ids(scenarios), e \in EmailInputs :
          {2, 4} \subseteq Violated(uid, id, e)
    /\ \E uid \in UserIds, id \in Ids(scenarios), e \in EmailInputs :
          Violated(uid, id, e) = {5}

(***************************************************************************)
(* C8: sharing to oneself.  For every scenario and every spelling of its   *)
(* owner's email (letter case, spaces around it) the owner's call ends with *)
(* SelfShareForbidden; no share row, committed or not, has the sender as   *)
(* recipient, and no shared copy is owned by the user who shared it.       *)
(***************************************************************************)
UpperChar(ch) ==
    CASE ch = "a" -> "A"
      [] ch = "b" -> "B"
      [] ch = "c" -> "C"
      [] ch = "l" -> "L"
      [] ch = "o" -> "O"
      [] ch = "y" -> "Y"
      [] OTHER -> ch

Spellings(email) ==
    {pre \o t \o post :
       t \in {email, Lower(email), [i \in DOMAIN email |-> UpperChar(email[i])]},
       pre \in {<< >>, <<" ">>, <<" ", " ">>},
       post \in {<< >>, <<" ">>}}

C9_NotOwnedLooksLikeNotFound ==
    /\ [](\A uid \in UserIds, id \in ScenarioIds, e \in EmailInputs :
            (~\E s \in scenarios : s.id = id /\ s.user_id = uid) =>
               LET here == FirstStatements(users, scenarios, uid, id, e)
               IN /\ here = {[kind |-> NotFoundOrNotOwned, locals |-> NoLocals]}
                  /\ \A s \in scenarios : s.id = id =>
                        FirstStatements(users, scenarios \ {s}, uid, id, e) = here
                  /\ id \notin Ids(scenarios) =>
                        \A v \in UserIds \ {uid}, content \in Contents :
                           FirstStatements(users,
                              scenarios \cup {OwnScenario(id, v, content)},
                              uid, id, e) = here)
    /\ [][\A c \in Calls :
            (Ends(c) /\ result'[c].kind = NotFoundOrNotOwned) =>
               UNCHANGED tables]_vars

\* a call ended with NotFoundOrNotOwned while users 2 and 3 own scenarios
C9_Witness ==
    /\ \E c \in Calls : pc[c] = "done" /\ result[c].kind = NotFoundOrNotOwned
    /\ \E s \in scenarios : s.user_id = 2
    /\ \E s \in scenarios : s.user_id = 3

(***************************************************************************)
(* C10: a shared copy keeps its name, description, overrides and base      *)
(* currency (and its owner and mark) through every step, be it an edit or  *)
(* the deletion of its source or a step of any share call, except the edit *)
(* and the deletion of the copy itself, which are its owner's.             *)
(***************************************************************************)
C10_SnapshotIndependence ==
    [][\A s \in scenarios : s.is_shared_copy =>
         \/ \E t \in scenarios' :
               /\ t.id = s.id
               /\ ContentOf(t) = ContentOf(s)
               /\ t.user_id = s.user_id
               /\ t.is_shared_copy
         \/ \E content \in Contents : EditScenario(s.id, content)
         \/ DeleteScenario(s.id)]_vars

\* a copy outlived its source, and another differs from its edited source
C10_Witness ==
    /\ \E s \in scenarios : s.is_shared_copy /\ s.shared_from_scenario_id = NullId
    /\ \E s \in scenarios, t \in scenarios :
          /\ t.is_shared_copy
          /\ t.shared_from_scenario_id = s.id
          /\ ContentOf(t) # ContentOf(s)

(***************************************************************************)
(* C11: a client's INSERT, UPDATE or DELETE on react_scenario_shares is    *)
(* refused or touches no row, and leaves the table as it was; every row    *)
(* that enters the table, new or changed, is the one row a returning       *)
(* react_share_scenario call wrote, with that call's source, sender,       *)
(* recipient, recipient email and time; rows leave the table only with     *)
(* their source scenario.                                                  *)
(***************************************************************************)
C11_SharesWrittenOnlyByShareCall ==
    [][/\ (direct' # direct /\ direct'.op \in {"insert", "update", "delete"}) =>
             /\ shares' = shares
             /\ direct'.rows = {}
             /\ direct'.op = "insert" => direct'.outcome = Denied
       /\ \A rs \in shares' \ shares :
             \E c \in Calls :
                /\ pc[c] = "return"
                /\ Ends(c)
                /\ result'[c].kind = Ok
                /\ shares' = shares \cup {rs}
                /\ rs.source_scenario_id = SourceOf(c).id
                /\ rs.shared_by_user_id = locals[c].sender_id
                /\ rs.recipient_user_id = locals[c].recipient_id
                /\ rs.recipient_email = users[locals[c].recipient_id]
                /\ rs.created_at = clock.start[c]
                /\ rs.created_at <= clock.now
       /\ \A rs \in shares \ shares' :
             /\ rs.source_scenario_id \in Ids(scenarios) \ Ids(scenarios')
             /\ \A c \in Calls : pc'[c] = pc[c]
      ]_vars

\* the sender's UPDATE of a share row written after the clock ticked touched
\* no row
C11_Witness ==
    /\ direct.op = "update"
    /\ \E rs \in shares :
          /\ direct.uid = rs.shared_by_user_id
          /\ rs.created_at = 1
    /\ direct.rows = {}

(***************************************************************************)
(* C12: a client's SELECT on react_scenario_shares shows exactly the rows  *)
(* whose sender or recipient is the client; a user who is neither sees     *)
(* none of them, and an anonymous client sees no row at all.               *)
(***************************************************************************)
C12_SharesVisibleToSenderAndRecipient ==
    [][(direct' # direct /\ direct'.op = "select") =>
          /\ direct'.rows =
                {rs \in shares :
                   /\ direct'.uid \in UserIds
                   /\ direct'.uid \in {rs.shared_by_user_id, rs.recipient_user_id}}
          /\ direct'.uid \notin UserIds => direct'.rows = {}
          /\ UNCHANGED shares
      ]_vars

\* a recipient was shown its row and not the row of another recipient
C12_Witness ==
    /\ direct.op = "select"
    /\ \E rs \in direct.rows : rs.recipient_user_id = direct.uid
    /\ \E rs \in shares : rs \notin direct.rows

(***************************************************************************)
(* C13: a call gets past the recipient lookup only when exactly one        *)
(* registered email equals the trimmed, lowercased input after             *)
(* lowercasing; with none or with more than one (two emails equal up to    *)
(* letter case) it ends with RecipientNotFound.  Stated of the step that   *)
(* takes a call past the lookup: the recipient it goes on with is the only *)
(* user with that email up to letter case.                                 *)
(***************************************************************************)
C13_ProceedsOnlyOnUniqueRecipient ==
    [][\A c \in Calls :
         (pc[c] \in {"idle", "done"} /\ pc'[c] = "check_exists") =>
            {u \in UserIds :
               Lower(users[u]) = Lower(locals'[c].recipient_email)}
              = {locals'[c].recipient_id}]_vars

\* what does hold of the lookup: an input that no registered email equals
\* ends the owner's call with RecipientNotFound
C13_NoMatchIsRecipientNotFound ==
    \A s \in scenarios, e \in EmailInputs :
       Resolved(e) = {} =>
          ChecksEndWith(s.user_id, s.id, e) = {RecipientNotFound}

(***************************************************************************)
(* What the search contract speaks of: the query as compared, and the      *)
(* users whose lowercased email begins with it.                            *)
(***************************************************************************)
ComparedQuery == NormalizedQuery(search.query)

BeginsWith(s, prefix) ==
    Len(prefix) <= Len(s) /\ SubSeq(s, 1, Len(prefix)) = prefix

PrefixMatches ==
    {u \in DOMAIN users : /\ u # search.uid
                           /\ BeginsWith(Lower(users[u]), ComparedQuery)}

Searched == search.kind = Ok /\ Len(ComparedQuery) >= 2

\* the rows are the first (at most ten) of set in the order of their emails
FirstOf(rows, set) ==
    /\ Len(rows) = (IF Cardinality(set) < 10 THEN Cardinality(set) ELSE 10)
    /\ \A i \in DOMAIN rows :
          /\ rows[i].user_id \in set
          /\ rows[i].email = users[rows[i].user_id]
    /\ \A i \in DOMAIN rows, j \in DOMAIN rows :
          i < j => TextLess(rows[i].email, rows[j].email)
    /\ \A u \in set :
          (\A i \in DOMAIN rows : rows[i].user_id # u) =>
             \A i \in DOMAIN rows : TextLess(rows[i].email, users[u])

(***************************************************************************)
(* C14: a search by a signed-in caller returns exactly the users other     *)
(* than the caller whose lowercased email begins with the trimmed,         *)
(* lowercased query, for every query, also one with % or _ in it: the      *)
(* first ten of them in the order of their emails.                         *)
(***************************************************************************)
C14_SearchIsStrictPrefixMatch ==
    Searched => FirstOf(search.rows, PrefixMatches)

\* what does hold: the same for the queries without %, _ and backslash
C14_PrefixMatchWithoutWildcards ==
    (Searched /\ \A i \in DOMAIN ComparedQuery :
                    ComparedQuery[i] \notin {"%", "_", "\\"})
       => FirstOf(search.rows, PrefixMatches)

(***************************************************************************)
(* C15: whatever the query and the registered users, the rows a search     *)
(* returns do not include the caller, are at most ten, are registered      *)
(* users with their emails, and come in ascending order of email.          *)
(***************************************************************************)
C15_SearchExcludesCallerLimitedOrdered ==
    /\ Len(search.rows) <= 10
    /\ \A i \in DOMAIN search.rows :
          /\ search.rows[i].user_id # search.uid
          /\ search.rows[i].user_id \in DOMAIN users
          /\ search.rows[i].email = users[search.rows[i].user_id]
    /\ \A i \in DOMAIN search.rows, j \in DOMAIN search.rows :
          i < j => TextLess(search.rows[i].email, search.rows[j].email)

\* a caller whose own email begins with the query got ten rows of the eleven
\* other users that match
C15_Witness ==
    /\ Len(search.rows) = 10
    /\ search.uid \in DOMAIN users
    /\ BeginsWith(Lower(users[search.uid]), ComparedQuery)
    /\ Cardinality(PrefixMatches) = 11

(***************************************************************************)
(* C16: for a signed-in caller a query of fewer than two characters after  *)
(* trimming and lowercasing (the empty and the NULL query included)        *)
(* returns no row and no error; for a caller who is not signed in every    *)
(* query fails with AuthenticationRequired; and no search changes the      *)
(* users, the scenarios or the share rows.                                 *)
(***************************************************************************)
C16_ShortQueryEmptyUnauthenticatedRefused ==
    /\ [](search.kind # "none" =>
            /\ search.uid = NullId =>
                  search.kind = AuthenticationRequired /\ search.rows = << >>
            /\ search.uid # NullId => search.kind = Ok
            /\ (search.uid # NullId /\
                   (\/ search.query = NullQuery
                    \/ Len(Trim(search.query)) < 2)) =>
                  search.rows = << >>)
    /\ [][search' # search =>
            UNCHANGED <<users, scenarios, shares, nextScenarioId,
                        newScenario, newShare, direct>>]_vars

\* a one-letter query between spaces got no row from users it is a prefix of
C16_Witness ==
    /\ search.kind = Ok
    /\ Len(search.query) = 3
    /\ Len(ComparedQuery) = 1
    /\ search.rows = << >>
    /\ PrefixMatches # {}

(***************************************************************************)
(* C17: the step that deletes a scenario removes every share row that has  *)
(* it as source and no other, and sets shared_from_scenario_id to NULL on  *)
(* every copy made from it; each such copy stays, with its owner, content, *)
(* is_shared_copy = TRUE, shared_by_user_id and shared_by_email as they    *)
(* were, and every other scenario stays as it is.  So no share row and no  *)
(* copy refers to a scenario that is gone.                                 *)
(***************************************************************************)
C17_DeleteCascadesSharesKeepsCopies ==
    /\ [][\A id \in Ids(scenarios) \ Ids(scenarios') :
            /\ shares' = {rs \in shares : rs.source_scenario_id # id}
            /\ \A s \in scenarios :
                  s.id # id =>
                     IF s.shared_from_scenario_id = id
                     THEN \E t \in scenarios' :
                             /\ t.id = s.id
                             /\ t.shared_from_scenario_id = NullId
                             /\ t.user_id = s.user_id
                             /\ ContentOf(t) = ContentOf(s)
                             /\ t.is_shared_copy = s.is_shared_copy
                             /\ t.shared_by_user_id = s.shared_by_user_id
                             /\ t.shared_by_email = s.shared_by_email
                     ELSE s \in scenarios'
            /\ Cardinality(scenarios') = Cardinality(scenarios) - 1]_vars
    /\ [](/\ \A rs \in shares : rs.source_scenario_id \in Ids(scenarios)
           /\ \A s \in scenarios :
                 s.shared_from_scenario_id \in Ids(scenarios) \cup {NullId})

\* two copies outlived their deleted source, the share rows gone with it
C17_Witness ==
    /\ shares = {}
    /\ \E s \in scenarios, t \in scenarios :
          /\ s.id # t.id
          /\ s.is_shared_copy /\ t.is_shared_copy
          /\ s.shared_from_scenario_id = NullId
          /\ t.shared_from_scenario_id = NullId
          /\ s.shared_by_user_id = t.shared_by_user_id
          /\ s.shared_by_user_id # NullId

(***************************************************************************)
(* C18: in every state of useMacroPreview, the conflict flag of each       *)
(* direct forecast field is true exactly when the building blocks differ   *)
(* from the defaults and the user has overridden the field.                *)
(***************************************************************************)
C18_ConflictIffChangedAndDirty ==
    \A f \in DirectFields :
       hook.conflicts[f] <=>
          (/\ \E key \in BuildingBlockKeys :
                 \/ hook.macroInputs[key] - Defaults[hook.region][key] > 10
                 \/ Defaults[hook.region][key] - hook.macroInputs[key] > 10
           /\ f \in hook.dirty[hook.region])

\* what does hold: a flag is true only with a preview at hand and the
\* building blocks changed, and hasChanges is that of the inputs
C18_ConflictOnlyWithPreview ==
    /\ hook.hasChanges = HasChanges(hook.macroInputs, Defaults[hook.region])
    /\ \A f \in DirectFields :
          hook.conflicts[f] => (hook.computed # NoPreview /\ hook.hasChanges)

(***************************************************************************)
(* C19: with the calls run one after the other: the step that deletes a    *)
(* shared copy leaves the share row of (source, sender, recipient) in the  *)
(* table; and while a share row is there (its source then exists), the     *)
(* sender's call for the same source and recipient ends with               *)
(* DuplicateShare, whether or not the recipient still has the copy, and    *)
(* such a call adds no row.                                                *)
(***************************************************************************)
C19_ShareRowOutlivesCopy ==
    /\ [][/\ \A t \in scenarios :
                (t.is_shared_copy /\ t.id \notin Ids(scenarios')) =>
                   \A rs \in shares :
                      rs.source_scenario_id # t.id => rs \in shares'
           /\ \A c \in Calls :
                (Ends(c) /\ result'[c].kind = DuplicateShare) =>
                   UNCHANGED tables]_vars
    /\ [](\A rs \in shares, e \in EmailInputs :
            rs.recipient_user_id \in Resolved(e) =>
               ChecksEndWith(rs.shared_by_user_id, rs.source_scenario_id, e)
                 = {DuplicateShare})

\* a second share was refused although the recipient has no copy any more
C19_Witness ==
    \E c \in Calls, rs \in shares :
       /\ pc[c] = "done"
       /\ result[c].kind = DuplicateShare
       /\ Cardinality(shares) = 1
       /\ \A s \in scenarios : ~s.is_shared_copy
       /\ nextScenarioId = 3

(***************************************************************************)
(* C20: the owner of a shared copy shares it like any scenario of theirs,  *)
(* also back to the user it came from.  The copy of the copy has the       *)
(* intermediate copy's id in shared_from_scenario_id (not the id of the    *)
(* scenario first shared) and the intermediate owner in shared_by_user_id, *)
(* and the duplicate check looks for share rows with the intermediate      *)
(* copy's id as source: the share rows of the scenario first shared do not *)
(* count.                                                                  *)
(***************************************************************************)
C20_CopyOfCopyRefersToImmediateSource ==
    /\ [][\A c \in Calls :
            (InFlight(c) /\ Ends(c) /\ result'[c].kind = Ok
               /\ SourceOf(c).is_shared_copy) =>
               \E t \in scenarios' \ scenarios, rs \in shares' \ shares :
                  /\ t.id = result'[c].shared_scenario_id
                  /\ t.shared_from_scenario_id = SourceOf(c).id
                  /\ t.shared_from_scenario_id # SourceOf(c).shared_from_scenario_id
                  /\ t.shared_by_user_id = SourceOf(c).user_id
                  /\ t.is_shared_copy
                  /\ rs.source_scenario_id = SourceOf(c).id
                  /\ rs.shared_by_user_id = SourceOf(c).user_id
                  /\ rs.recipient_user_id = t.user_id]_vars
    /\ [](\A s \in scenarios, r \in UserIds, e \in EmailInputs :
            (s.is_shared_copy /\ r # s.user_id /\ r \in Resolved(e)) =>
               ChecksEndWith(s.user_id, s.id, e) =
                  IF \E rs \in shares : Triple(rs) = <<s.id, s.user_id, r>>
                  THEN {DuplicateShare} ELSE {Pass})

\* a copy was shared back to the user it came from
C20_Witness ==
    \E s \in scenarios, t \in scenarios :
       /\ s.is_shared_copy
       /\ s.shared_from_scenario_id \notin {NullId, s.id}
       /\ t.is_shared_copy
       /\ t.shared_from_scenario_id = s.id
       /\ t.shared_by_user_id = s.user_id
       /\ t.user_id = s.shared_by_user_id
       /\ \E rs \in shares : Triple(rs) = <<s.id, s.user_id, t.user_id>>
       /\ \E rs \in shares :
             Triple(rs) = <<s.shared_from_scenario_id, t.user_id, s.user_id>>

(***************************************************************************)
(* C21: the computed preview is always the one of the most recent          *)
(* building-block inputs: a response that arrives when the inputs are no   *)
(* longer those of its request (a later request was issued, or the inputs  *)
(* are back at the defaults) never overwrites computed, and once           *)
(* hasChanges is false and every request has resolved, computed is null.   *)
(* The hook never cancels a request under way, so this fails.              *)
(***************************************************************************)
C21_ComputedOfLatestInputs ==
    /\ [][(hook'.computed # hook.computed /\ hook'.computed # NoPreview)
            => (hook'.hasChanges /\ hook'.computed.of = BuildingBlocks(hook'))]_vars
    /\ []((~hook.hasChanges /\ hook.fetching = << >> /\ hook.timeouts = {})
            => hook.computed = NoPreview)

\* a preview is shown although the inputs are the defaults and nothing is
\* under way
C21_StalePreviewShown ==
    /\ ~hook.hasChanges
    /\ hook.fetching = << >>
    /\ hook.timeouts = {}
    /\ hook.computed # NoPreview

(***************************************************************************)
(* C22: a change of the building blocks or of the region before the 300 ms *)
(* of the change before are over cancels its timeout: at most one timeout  *)
(* is set, and it is the one of the current region and inputs, which are   *)
(* not the defaults; a call of calculateMacroPreview is made by the one    *)
(* timeout set, with the region and inputs of the last change, never with  *)
(* the defaults, and leaves no timeout set.                                *)
(***************************************************************************)
C22_DebounceKeepsLastChange ==
    /\ [](/\ Cardinality(hook.timeouts) <= 1
           /\ \A request \in hook.timeouts :
                 /\ request = [region |-> hook.region,
                               buildingBlocks |-> hook.macro[hook.region]]
                 /\ HasChanges(request.buildingBlocks, Defaults[request.region]))
    /\ [][Len(hook'.fetching) > Len(hook.fetching)
            => /\ hook'.fetching = Append(hook.fetching,
                     [region |-> hook.region,
                      buildingBlocks |-> hook.macro[hook.region]])
               /\ HasChanges(hook.macro[hook.region], Defaults[hook.region])
               /\ hook.timeouts # {}
               /\ hook'.timeouts = {}]_vars

\* after a change of region and a change of each building block there, one
\* call is under way, with the latest inputs, and no timeout is left
C22_Witness ==
    /\ hook.timeouts = {}
    /\ Len(hook.fetching) = 1
    /\ hook.fetching[1].region = "eurozone"
    /\ \A key \in BuildingBlockKeys :
          Abs(hook.fetching[1].buildingBlocks[key] - Defaults["eurozone"][key]) > Tolerance
    /\ hook.fetching[1].buildingBlocks = hook.macro[hook.region]
    /\ hook.computed = NoPreview
    /\ hook.error = NoError

\* the same text but for the case of its letters
SameLetters(s, t) ==
    /\ Len(s) = Len(t)
    /\ \A i \in DOMAIN s :
          \/ s[i] = t[i]
          \/ UpperChar(s[i]) = t[i]
          \/ s[i] = UpperChar(t[i])

(***************************************************************************)
(* C23: in every state of the auth store, whatever the interleaving of     *)
(* initialize, signIn, signUp, signOut and the auth state callback,        *)
(* isSuperUser is true exactly when user is not null, a super user email   *)
(* is configured and the user's email is that email up to the case of its  *)
(* letters; isSuperUser is false whenever user is null.                    *)
(***************************************************************************)
C23_SuperUserIffEmailMatches ==
    /\ auth.isSuperUser <=>
          /\ auth.user # Null
          /\ auth.SUPER_USER_EMAIL # << >>
          /\ SameLetters(auth.user.email, auth.SUPER_USER_EMAIL)
    /\ auth.user = Null => ~auth.isSuperUser

\* a user whose email is the super user's in other letter case is signed
\* in while another call is under way
C23_Witness ==
    /\ auth.isSuperUser
    /\ auth.user.email # auth.SUPER_USER_EMAIL
    /\ auth.returned.call = "signIn"
    /\ Awaiting > 0

\* a call of the store returns in this step
Completes == auth'.returned # auth.returned

\* signIn or signUp returns success = false in this step
FailedSign ==
    /\ Completes
    /\ auth'.returned.call \in {"signIn", "signUp"}
    /\ ~auth'.returned.value.success

\* signIn or signUp runs up to its await in this step
BeginsSign ==
    \E call \in {"signIn", "signUp"} :
       auth'.awaiting[call] > auth.awaiting[call]

\* what a failed signIn or signUp returns and leaves in the store
FailedSignLeaves ==
    /\ FailedSign =>
          /\ auth'.returned.value.error \notin {"", NoError}
          /\ auth'.user = auth.user
          /\ auth'.session = auth.session
          /\ auth'.isSuperUser = auth.isSuperUser
          /\ auth.supabase =>
                /\ ~auth'.isLoading
                /\ auth'.error = auth'.returned.value.error
    /\ BeginsSign =>
          /\ auth'.user = auth.user
          /\ auth'.session = auth.session
          /\ auth'.isSuperUser = auth.isSuperUser

(***************************************************************************)
(* C24 as stated: a signIn or signUp that fails returns success = false    *)
(* with an error message and leaves user, session and isSuperUser as they  *)
(* were; with the backend configured it ends with isLoading = false and    *)
(* error set to that message; and every signIn, signUp, signOut and        *)
(* initialize that completes ends with isLoading = false.                  *)
(***************************************************************************)
C24_EveryCallEndsNotLoading ==
    [][/\ FailedSignLeaves
       /\ Completes => ~auth'.isLoading]_vars

(***************************************************************************)
(* C24 amended: a signIn or signUp that fails returns success = false with *)
(* an error message and leaves user, session and isSuperUser as they were; *)
(* with the backend configured it ends with isLoading = false and error    *)
(* set to that message.  Every initialize that completes, and every        *)
(* signIn, signUp and signOut that completes with the backend configured,  *)
(* ends with isLoading = false; without the backend signIn, signUp and     *)
(* signOut leave isLoading, as the whole store, as it was.                 *)
(***************************************************************************)
C24_ConfiguredCallEndsNotLoading ==
    [][/\ FailedSignLeaves
       /\ (Completes /\ (auth.supabase \/ auth'.returned.call = "initialize"))
             => ~auth'.isLoading
       /\ (Completes /\ ~auth.supabase /\ auth'.returned.call # "initialize")
             => auth' = [auth EXCEPT !.returned = auth'.returned]]_vars

\* signIn threw without a message while a super user was signed in: it
\* returned its own message, which is the store's error, and the user stays
C24_Witness ==
    /\ auth.supabase
    /\ auth.returned.call = "signIn"
    /\ ~auth.returned.value.success
    /\ auth.returned.value.error = "Sign in failed"
    /\ auth.error = "Sign in failed"
    /\ ~auth.isLoading
    /\ auth.isSuperUser

\* signIn returned without the backend before initialize ran: the store is
\* still loading
C24_ReturnedStillLoading ==
    /\ ~auth.supabase
    /\ auth.returned.call = "signIn"
    /\ auth.isLoading

====================================================================
